---- MODULE Spec2Model ----
(***************************************************************************)
(* The rule transcoder of tools/rule_transcoder.py (class RuleTranscoder). *)
(* Text is modelled character by character: a string is a sequence of     *)
(* one-character strings, so that the regular expressions and the         *)
(* substring operations of the code act as they do in the program.        *)
(***************************************************************************)
EXTENDS Integers, Sequences, FiniteSets, TLC

\* ------------------------------------------------------------ characters

LowerCase == <<"a","b","c","d","e","f","g","h","i","j","k","l","m","n","o","p","q","r","s","t","u","v","w","x","y","z">>
UpperCase == <<"A","B","C","D","E","F","G","H","I","J","K","L","M","N","O","P","Q","R","S","T","U","V","W","X","Y","Z">>
Digits == {"0","1","2","3","4","5","6","7","8","9"}
LowerSet == {LowerCase[i] : i \in DOMAIN LowerCase}
UpperSet == {UpperCase[i] : i \in DOMAIN UpperCase}

\* \w of the re module (ASCII part)
WordChars == LowerSet \cup UpperSet \cup Digits \cup {"_"}
\* \s of the re module, and the characters str.strip() removes
SpaceChars == {" ", "\t", "\n", "\r"}

IsWord(c) == c \in WordChars
IsSpace(c) == c \in SpaceChars
IsCased(c) == c \in LowerSet \cup UpperSet

ToLower == [c \in UpperSet |-> LowerCase[CHOOSE i \in DOMAIN UpperCase : UpperCase[i] = c]]
ToUpper == [c \in LowerSet |-> UpperCase[CHOOSE i \in DOMAIN LowerCase : LowerCase[i] = c]]

\* ------------------------------------------------------------ str methods

\* str.lower()
str_lower(s) == [i \in DOMAIN s |-> IF s[i] \in UpperSet THEN ToLower[s[i]] ELSE s[i]]

\* str.title(): a cased character is upper-cased after an uncased one (or at the
\* start) and lower-cased after a cased one
str_title(s) ==
    [i \in DOMAIN s |->
        IF ~IsCased(s[i]) THEN s[i]
        ELSE IF i = 1 \/ ~IsCased(s[i-1])
             THEN (IF s[i] \in LowerSet THEN ToUpper[s[i]] ELSE s[i])
             ELSE (IF s[i] \in UpperSet THEN ToLower[s[i]] ELSE s[i])]

\* sub occurs in s at index i
OccursAt(s, sub, i) ==
    /\ i >= 1
    /\ i + Len(sub) - 1 <= Len(s)
    /\ \A k \in DOMAIN sub : s[i + k - 1] = sub[k]

RECURSIVE FindFrom(_, _, _)
FindFrom(s, sub, i) ==
    IF i + Len(sub) - 1 > Len(s) THEN 0
    ELSE IF OccursAt(s, sub, i) THEN i
    ELSE FindFrom(s, sub, i + 1)

\* str.find(sub, start) with 1-based indices; 0 when sub does not occur
str_find(s, sub, start) == FindFrom(s, sub, start)

\* Python's "sub in s"
str_contains(s, sub) == str_find(s, sub, 1) # 0

\* str.startswith(prefix)
str_startswith(s, prefix) == OccursAt(s, prefix, 1)
str_endswith(s, suffix) ==
    Len(suffix) <= Len(s) /\ OccursAt(s, suffix, Len(s) - Len(suffix) + 1)

\* str.strip(): leading and trailing whitespace removed
str_strip(s) ==
    LET N == {i \in DOMAIN s : ~IsSpace(s[i])}
    IN  IF N = {} THEN <<>>
        ELSE SubSeq(s, CHOOSE i \in N : \A j \in N : i <= j,
                       CHOOSE i \in N : \A j \in N : j <= i)

\* str.rstrip('\n\r')
str_rstrip_nl(s) ==
    LET N == {i \in DOMAIN s : s[i] \notin {"\n", "\r"}}
    IN  IF N = {} THEN <<>> ELSE SubSeq(s, 1, CHOOSE i \in N : \A j \in N : j <= i)

RECURSIVE ReplaceFrom(_, _, _, _)
ReplaceFrom(s, old, new, i) ==
    LET p == str_find(s, old, i)
    IN  IF p = 0 THEN SubSeq(s, i, Len(s))
        ELSE SubSeq(s, i, p - 1) \o new \o ReplaceFrom(s, old, new, p + Len(old))

RECURSIVE Interleave(_, _, _)
Interleave(s, new, i) ==
    IF i > Len(s) THEN new ELSE new \o <<s[i]>> \o Interleave(s, new, i + 1)

\* str.replace(old, new): every non-overlapping occurrence, left to right; an
\* empty old matches before every character and at the end
str_replace(s, old, new) ==
    IF old = <<>> THEN Interleave(s, new, 1) ELSE ReplaceFrom(s, old, new, 1)

\* s.split(sep)[-1] for a one-character sep: the text after the last sep
str_split_last(s, sep) ==
    LET P == {i \in DOMAIN s : s[i] = sep}
    IN  IF P = {} THEN s
        ELSE SubSeq(s, (CHOOSE i \in P : \A j \in P : j <= i) + 1, Len(s))

RECURSIVE SplitFrom(_, _, _)
SplitFrom(s, sep, i) ==
    LET P == {k \in i..Len(s) : s[k] = sep}
    IN  IF P = {} THEN <<SubSeq(s, i, Len(s))>>
        ELSE LET p == CHOOSE k \in P : \A j \in P : k <= j
             IN  <<SubSeq(s, i, p - 1)>> \o SplitFrom(s, sep, p + 1)

\* content.split('\n'): always at least one piece
str_split(s, sep) == SplitFrom(s, sep, 1)

RECURSIVE JoinFrom(_, _, _)
JoinFrom(parts, sep, i) ==
    IF i > Len(parts) THEN <<>>
    ELSE IF i = Len(parts) THEN parts[i]
    ELSE parts[i] \o <<sep>> \o JoinFrom(parts, sep, i + 1)

\* '\n'.join(parts)
str_join(parts, sep) == JoinFrom(parts, sep, 1)

\* ------------------------------------------------------------ regular expressions

\* the last index of the maximal run of \w characters that starts at i
RECURSIVE WordEnd(_, _)
WordEnd(s, i) == IF i < Len(s) /\ IsWord(s[i + 1]) THEN WordEnd(s, i + 1) ELSE i

\* the first index at or after i that holds no \s character (Len(s)+1 if none)
RECURSIVE SkipSpace(_, _)
SkipSpace(s, i) == IF i <= Len(s) /\ IsSpace(s[i]) THEN SkipSpace(s, i + 1) ELSE i

\* \b followed by \w at index i
WordStart(s, i) == i <= Len(s) /\ IsWord(s[i]) /\ (i = 1 \/ ~IsWord(s[i - 1]))

\* r'\b(\w+)\.(\w+)' matches at i: <<end of group 1, end of group 2>>, or <<>>
MatchDotted(s, i) ==
    IF ~WordStart(s, i) THEN <<>>
    ELSE LET j == WordEnd(s, i)
         IN  IF j + 2 <= Len(s) /\ s[j + 1] = "." /\ IsWord(s[j + 2])
             THEN <<j, WordEnd(s, j + 2)>>
             ELSE <<>>

\* r'\b(\w+)\.(\w+)\s*\(' matches at i: <<end of group 1, end of group 2, index of the '('>>
MatchDottedCall(s, i) ==
    LET m == MatchDotted(s, i)
    IN  IF m = <<>> THEN <<>>
        ELSE LET p == SkipSpace(s, m[2] + 1)
             IN  IF p <= Len(s) /\ s[p] = "(" THEN <<m[1], m[2], p>> ELSE <<>>

\* ------------------------------------------------------------ ordered dict

\* A dict is a sequence of <<key, value>> pairs in insertion order, keys unique.
DictHas(d, k) == \E i \in DOMAIN d : d[i][1] = k
DictGet(d, k) == d[CHOOSE i \in DOMAIN d : d[i][1] = k][2]
\* d[k] = v: an existing key keeps its place
DictSet(d, k, v) ==
    IF DictHas(d, k) THEN [i \in DOMAIN d |-> IF d[i][1] = k THEN <<k, v>> ELSE d[i]]
    ELSE Append(d, <<k, v>>)

RECURSIVE InvertFrom(_, _)
InvertFrom(d, i) ==
    IF i = 0 THEN <<>> ELSE DictSet(InvertFrom(d, i - 1), d[i][2], d[i][1])
\* {v: k for k, v in d.items()}
DictInvert(d) == InvertFrom(d, Len(d))

\* ------------------------------------------------------------ RuleTranscoder.__init__

module_mappings == <<
    <<<<"p","e">>, <<"I","r","o","n","C","u","r","t","a","i","n">>>>,
    <<<<"e","l","f">>, <<"G","h","o","s","t","w","i","r","e">>>>,
    <<<<"d","o","t","n","e","t">>, <<"N","e","t","r","u","n","n","e","r">>>>,
    <<<<"m","a","c","h","o">>, <<"M","a","c","h","i","n","i","s","t">>>>,
    <<<<"d","e","x">>, <<"A","n","d","r","o","i","d">>>>,
    <<<<"h","a","s","h">>, <<"D","i","g","e","s","t">>>>,
    <<<<"m","a","t","h">>, <<"C","a","l","c","u","l","a","t","o","r">>>>,
    <<<<"t","i","m","e">>, <<"C","h","r","o","n","o","m","e","t","e","r">>>>,
    <<<<"s","t","r","i","n","g">>, <<"T","e","x","t","P","r","o","c","e","s","s","o","r">>>>,
    <<<<"c","o","n","s","o","l","e">>, <<"T","e","r","m","i","n","a","l">>>>,
    <<<<"c","u","c","k","o","o">>, <<"S","a","n","d","b","o","x">>>>,
    <<<<"m","a","g","i","c">>, <<"F","i","l","e","T","y","p","e">>>> >>

RECURSIVE BuildFrom(_, _)
BuildFrom(entries, i) ==
    IF i = 0 THEN <<>>
    ELSE LET sm == BuildFrom(entries, i - 1)
             symbol == entries[i].symbol
             codename == entries[i].pyro_name
         IN  IF symbol # <<>> /\ codename # <<>> THEN DictSet(sm, symbol, codename) ELSE sm

\* _build_symbol_map over the "entries" list of the dictionary file; a missing key
\* reads as the empty string
_build_symbol_map(entries) == BuildFrom(entries, Len(entries))

ModulePrefix == <<"M","o","d","u","l","e","-">>

translate_module_reference(module_name) ==
    IF DictHas(module_mappings, str_lower(module_name))
    THEN DictGet(module_mappings, str_lower(module_name))
    ELSE ModulePrefix \o str_title(module_name)

RECURSIVE SubDotted(_, _)
\* re.sub(r'\b(\w+)\.(\w+)', lambda m: f"{self.translate_module_reference(m.group(1))}.{m.group(2)}", s) from index i
SubDotted(s, i) ==
    IF i > Len(s) THEN <<>>
    ELSE LET m == MatchDotted(s, i)
         IN  IF m = <<>> THEN <<s[i]>> \o SubDotted(s, i + 1)
             ELSE translate_module_reference(SubSeq(s, i, m[1])) \o <<".">> \o SubSeq(s, m[1] + 2, m[2])
                  \o SubDotted(s, m[2] + 1)

RECURSIVE SubDottedCall(_, _)
\* re.sub(r'\b(\w+)\.(\w+)\s*\(', lambda m: f"{self.translate_module_reference(m.group(1))}.{m.group(2)}(", s) from index i
SubDottedCall(s, i) ==
    IF i > Len(s) THEN <<>>
    ELSE LET m == MatchDottedCall(s, i)
         IN  IF m = <<>> THEN <<s[i]>> \o SubDottedCall(s, i + 1)
             ELSE translate_module_reference(SubSeq(s, i, m[1])) \o <<".">> \o SubSeq(s, m[1] + 2, m[2]) \o <<"(">>
                  \o SubDottedCall(s, m[3] + 1)

\* ------------------------------------------------------------ line classification

ConditionHeader == <<"c","o","n","d","i","t","i","o","n",":">>
StringsHeader == <<"s","t","r","i","n","g","s",":">>
MetaHeader == <<"m","e","t","a",":">>
RuleHeader == <<"r","u","l","e",":">>

\* re.match(r'^\s*condition:\s*$', line, re.IGNORECASE)
is_condition_header(line) == str_lower(str_strip(line)) = ConditionHeader
\* re.match(r'^\s*strings:\s*$', line, re.IGNORECASE)
is_strings_header(line) == str_lower(str_strip(line)) = StringsHeader
\* re.match(r'^\s*(meta|rule):', line, re.IGNORECASE)
is_meta_or_rule_header(line) ==
    LET p == SkipSpace(line, 1)
        l == str_lower(line)
    IN  OccursAt(l, MetaHeader, p) \/ OccursAt(l, RuleHeader, p)

\* DetectSection with the strings branch leaving in_condition as it was
DetectSectionStringsKeepsCondition(line, in_condition, in_strings) ==
    IF is_condition_header(line) THEN <<TRUE, FALSE>>
    ELSE IF is_strings_header(line) THEN <<in_condition, TRUE>>
    ELSE IF is_meta_or_rule_header(line) THEN <<FALSE, FALSE>>
    ELSE <<in_condition, in_strings>>

\* the section flags <<in_condition, in_strings>> after the "Detect sections" step
DetectSection(line, in_condition, in_strings) ==
    IF is_condition_header(line) THEN <<TRUE, FALSE>>
    ELSE IF is_strings_header(line) THEN <<FALSE, TRUE>>
    ELSE IF is_meta_or_rule_header(line) THEN <<FALSE, FALSE>>
    ELSE <<in_condition, in_strings>>

\* ------------------------------------------------------------ forward

\* the two re.sub passes applied to a line of the condition section
TranslateLine(line) ==
    SubDottedCall(SubDotted(line, 1), 1)

CommentStart == <<"/","/">>
OriginalPrefix == <<" "," "," "," ","/","/"," ","O","r","i","g","i","n","a","l",":"," ">>

\* processed_line != original_line and not processed_line.strip().startswith('//')
NeedsTag(processed_line, original_line) ==
    processed_line # original_line /\ ~str_startswith(str_strip(processed_line), CommentStart)

\* ------------------------------------------------------------ reverse

OriginalMarker == <<"/","/"," ","O","r","i","g","i","n","a","l",":">>

\* re.search(r'// Original:\s*(.+)', line): <<group(1)>>, or <<>> when nothing matches.
\* The line holds no '\n'. \s* gives back one character when only whitespace follows.
OriginalMatch(line) ==
    LET p == str_find(line, OriginalMarker, 1)
        rest == SubSeq(line, p + Len(OriginalMarker), Len(line))
        q == SkipSpace(rest, 1)
    IN  IF p = 0 \/ rest = <<>> THEN <<>>
        ELSE IF q <= Len(rest) THEN <<SubSeq(rest, q, Len(rest))>>
        ELSE <<SubSeq(rest, Len(rest), Len(rest))>>

reverse_module_map == DictInvert(module_mappings)

RECURSIVE ReverseModules(_, _)
\* for codename, module in reverse_module_map.items():
\*     if codename in line: line = line.replace(codename, module)
ReverseModules(line, i) ==
    IF i > Len(reverse_module_map) THEN line
    ELSE ReverseModules(
            IF str_contains(line, reverse_module_map[i][1])
            THEN str_replace(line, reverse_module_map[i][1], reverse_module_map[i][2])
            ELSE line,
            i + 1)

RECURSIVE ReverseFunctions(_, _, _)
\* for codename, symbol in self.codename_to_symbol.items(): ...
ReverseFunctions(c2s, line, i) ==
    IF i > Len(c2s) THEN line
    ELSE LET codename == c2s[i][1]
             symbol == c2s[i][2]
             func_name == str_split_last(codename, "-")
             original_func == IF "_" \in {symbol[k] : k \in DOMAIN symbol}
                              THEN str_split_last(symbol, "_") ELSE symbol
         IN  ReverseFunctions(c2s,
                IF str_contains(line, codename) /\ str_contains(line, func_name) /\ symbol # <<>>
                THEN str_replace(line, func_name, original_func)
                ELSE line,
                i + 1)

\* the substitution-based reversal of a line without a tag
ReverseLine(c2s, line) == ReverseFunctions(c2s, ReverseModules(line, 1), 1)

\* ------------------------------------------------------------ one pass of the loops

Newline == <<"\n">>

\* LoopBody with nothing yielded for the condition header in the forward direction
LoopBodySkipsHeader(md, c2s, line, in_cond, in_str) ==
    LET original_line == str_rstrip_nl(line)
        sec == DetectSection(original_line, in_cond, in_str)
        processed_line ==
            IF md = "to_cryptex" /\ sec[1] THEN TranslateLine(original_line)
            ELSE IF md = "from_cryptex" THEN ReverseLine(c2s, original_line)
            ELSE original_line
    IN  IF md = "from_cryptex" /\ str_contains(original_line, OriginalMarker)
        THEN [sec |-> sec,
              tagged |-> FALSE,
              yields |-> IF OriginalMatch(original_line) # <<>>
                         THEN <<OriginalMatch(original_line)[1] \o Newline>>
                         ELSE <<>>]
        ELSE IF md = "to_cryptex" /\ is_condition_header(original_line)
        THEN [sec |-> sec, tagged |-> FALSE, yields |-> <<>>]
        ELSE [sec |-> sec,
              tagged |-> NeedsTag(processed_line, original_line),
              yields |-> (IF NeedsTag(processed_line, original_line)
                          THEN <<OriginalPrefix \o original_line \o Newline>>
                          ELSE <<>>)
                         \o <<processed_line \o Newline>>]

\* One iteration of the for loop of stream_transcode_lines: the section flags after
\* it and the lines it yields, in order.
LoopBody(md, c2s, line, in_cond, in_str) ==
    LET original_line == str_rstrip_nl(line)
        sec == DetectSection(original_line, in_cond, in_str)
        processed_line ==
            IF md = "to_cryptex" /\ sec[1] THEN TranslateLine(original_line)
            ELSE IF md = "from_cryptex" THEN ReverseLine(c2s, original_line)
            ELSE original_line
    IN  IF md = "from_cryptex" /\ str_contains(original_line, OriginalMarker)
        THEN [sec |-> sec,
              tagged |-> FALSE,
              yields |-> IF OriginalMatch(original_line) # <<>>
                         THEN <<OriginalMatch(original_line)[1] \o Newline>>
                         ELSE <<>>]
        ELSE [sec |-> sec,
              tagged |-> NeedsTag(processed_line, original_line),
              yields |-> (IF NeedsTag(processed_line, original_line)
                          THEN <<OriginalPrefix \o original_line \o Newline>>
                          ELSE <<>>)
                         \o <<processed_line \o Newline>>]

RECURSIVE ToCryptexFrom(_, _, _, _)
\* the for loop of _transcode_to_cryptex from line i on: the list "transcoded"
ToCryptexFrom(lines, i, in_cond, in_str) ==
    IF i > Len(lines) THEN <<>>
    ELSE LET original_line == lines[i]
             sec == DetectSection(original_line, in_cond, in_str)
             line == IF sec[1] THEN TranslateLine(original_line) ELSE original_line
         IN  (IF NeedsTag(line, original_line)
              THEN <<OriginalPrefix \o str_strip(original_line)>>
              ELSE <<>>)
             \o <<line>> \o ToCryptexFrom(lines, i + 1, sec[1], sec[2])

_transcode_to_cryptex(content) ==
    str_join(ToCryptexFrom(str_split(content, "\n"), 1, FALSE, FALSE), "\n")

RECURSIVE FromCryptexFrom(_, _, _)
\* the for loop of _transcode_from_cryptex from line i on: the list "transcoded"
FromCryptexFrom(c2s, lines, i) ==
    IF i > Len(lines) THEN <<>>
    ELSE (IF str_contains(lines[i], OriginalMarker)
          THEN OriginalMatch(lines[i])
          ELSE <<ReverseLine(c2s, lines[i])>>)
         \o FromCryptexFrom(c2s, lines, i + 1)

_transcode_from_cryptex(c2s, content) ==
    str_join(FromCryptexFrom(c2s, str_split(content, "\n"), 1), "\n")

transcode_rule_content(c2s, rule_content, md) ==
    IF md = "from_cryptex" THEN _transcode_from_cryptex(c2s, rule_content)
    ELSE _transcode_to_cryptex(rule_content)

\* ------------------------------------------------------------ bounds and inputs

\* the longest rule text a fresh run is given, in lines
MaxLines == 3
\* the number of runs chained through one transcoder instance
MaxRuns == 3

\* the lines canonical rule texts are drawn from (without line terminators)
CanonicalPool == {
    <<"c","o","n","d","i","t","i","o","n",":">>,
    <<"s","t","r","i","n","g","s",":">>,
    <<"m","e","t","a",":">>,
    <<" "," "," "," ","p","e",".","g","e","t","_","s","e","c","t","i","o","n","(","0",")"," ",">"," ","5">>,
    <<"p","e",".","n","u","m","b","e","r","_","o","f","_","s","e","c","t","i","o","n","s"," ",">"," ","5">>,
    <<"f","o","o",".","b","a","r","(","1",")">> }

\* the lines codename-form rule texts are drawn from (without line terminators)
CryptexPool == {
    <<"c","o","n","d","i","t","i","o","n",":">>,
    <<"s","t","r","i","n","g","s",":">>,
    <<" "," "," "," ","$","a"," ","="," ","\"","D","i","g","e","s","t","\"">>,
    <<"D","i","g","e","s","t","e","r","s"," ",">"," ","1">>,
    <<"/","/"," ","O","r","i","g","i","n","a","l",":">> }

\* the lines a first call in mode md is given
LinePool(md) == IF md = "to_cryptex" THEN CanonicalPool ELSE CryptexPool

\* the dictionary snapshot of data/cryptex.json the instance is built from
Snapshot == <<
    [symbol |-> <<"p","e","_","g","e","t","_","s","e","c","t","i","o","n">>, pyro_name |-> <<"I","r","o","n","C","u","r","t","a","i","n","-","S","e","c","t","i","o","n">>],
    [symbol |-> <<"t","e","s","t","_","f","u","n","c","t","i","o","n">>, pyro_name |-> <<"T","e","s","t","-","C","o","d","e","n","a","m","e">>] >>

Modes == {"to_cryptex", "from_cryptex"}

RECURSIVE TextsOf(_, _)
\* every text of exactly n lines over pool
TextsOf(pool, n) ==
    IF n = 0 THEN {<<>>}
    ELSE {Append(t, l) : t \in TextsOf(pool, n - 1), l \in pool}

Texts(md) == UNION {TextsOf(LinePool(md), n) : n \in 1..MaxLines}

\* ------------------------------------------------------------ archives and files

\* the most entries an archive holds
MaxEntries == 3

\* a byte that is not valid UTF-8 wherever it stands
InvalidByte == "0xFF"

\* bytes.decode('utf-8', errors='replace'): a byte that does not decode becomes U+FFFD
decode_replace(data) == [i \in DOMAIN data |-> IF data[i] = InvalidByte THEN "U+FFFD" ELSE data[i]]

\* bytes.decode('utf-8', errors='ignore'): the bytes that do not decode are dropped
decode_ignore(data) == SelectSeq(data, LAMBDA b : b # InvalidByte)

RECURSIVE ConcatFrom(_, _)
ConcatFrom(parts, i) == IF i > Len(parts) THEN <<>> ELSE parts[i] \o ConcatFrom(parts, i + 1)

\* ''.join(parts)
str_concat(parts) == ConcatFrom(parts, 1)

\* Path(p).name: what follows the last '/'
PathName(p) == str_split_last(p, "/")

YarSuffix == <<".","y","a","r">>
YaraSuffix == <<".","y","a","r","a">>

\* the filter with the '.yara' alternative left out
IsYarOnly(name) == str_endswith(name, YarSuffix)

\* the filter of lines 228 and 420
IsRuleEntry(name) == str_endswith(name, YarSuffix) \/ str_endswith(name, YaraSuffix)

\* the members archives are made of: name, stored bytes, and whether the stored
\* bytes pass the CRC check zip_ref.read makes
EntryPool == {
    [name |-> <<"a","/","r",".","y","a","r">>, data |-> <<"c","o","n","d","i","t","i","o","n",":">>, crc_ok |-> TRUE],
    [name |-> <<"b","/","r",".","y","a","r">>, data |-> <<"p","e",".","n","u","m","b","e","r","_","o","f","_","s","e","c","t","i","o","n","s"," ",">"," ","5">>, crc_ok |-> TRUE],
    [name |-> <<"a","/","r",".","y","a","r">>, data |-> <<"s","t","r","i","n","g","s",":">>, crc_ok |-> TRUE],
    [name |-> <<"b","a","d",".","y","a","r">>, data |-> <<"c","o","n","d","i","t","i","o","n",":">>, crc_ok |-> FALSE],
    [name |-> <<"s",".","y","a","r","a">>, data |-> <<InvalidByte>> \o <<"m","e","t","a",":">> \o <<InvalidByte>>, crc_ok |-> TRUE],
    [name |-> <<"n",".","t","x","t">>, data |-> <<"x">>, crc_ok |-> TRUE] }

RECURSIVE ArchivesOf(_)
\* every archive of exactly n members
ArchivesOf(n) ==
    IF n = 0 THEN {<<>>}
    ELSE {Append(a, e) : a \in ArchivesOf(n - 1), e \in EntryPool}

Archives == UNION {ArchivesOf(n) : n \in 0..MaxEntries}

\* zip_ref.namelist(): the member names in listing order
namelist(a) == [i \in DOMAIN a |-> a[i].name]

\* the member zip_ref.read(name) reads: the last one listed under that name
Member(a, name) == a[CHOOSE i \in DOMAIN a : a[i].name = name /\ \A j \in DOMAIN a : a[j].name = name => j <= i]

\* an output location that does not exist yet
NoOutput == [made |-> FALSE, files |-> <<>>, dirs |-> {}]

\* the states the output location is in before a call: absent, or a directory that
\* already holds a subdirectory
OutputStates == {NoOutput, [made |-> TRUE, files |-> <<>>, dirs |-> {<<"s",".","y","a","r","a">>}]}

\* the output location once mkdir(parents=True, exist_ok=True) has run unconditionally
MkdirBeforeCheck(o, exists) == [o EXCEPT !.made = TRUE]

\* the output location after the existence check and the mkdir that follows it
AfterExistsCheck(o, exists) == IF exists THEN [o EXCEPT !.made = TRUE] ELSE o

\* the longest file a file-level call is given, in lines
MaxFileLines == 2

\* the texts of the files a file-level call in mode md is given
FileTexts(md) == UNION {TextsOf(LinePool(md), n) : n \in 0..MaxFileLines}

\* the name of the output file of the single-file operations
OutputFile == <<"s",".","y","a","r","a">>

RECURSIVE StreamFrom(_, _, _, _, _, _)
\* what stream_transcode_lines yields for lines i.. of a list, from the given flags
StreamFrom(md, c2s, lines, i, in_cond, in_str) ==
    IF i > Len(lines) THEN <<>>
    ELSE LET r == LoopBody(md, c2s, lines[i], in_cond, in_str)
         IN  r.yields \o StreamFrom(md, c2s, lines, i + 1, r.sec[1], r.sec[2])

\* transcoded_content of lines 428-432 for the bytes of one member
EntryContent(md, c2s, data) ==
    str_concat(StreamFrom(md, c2s, str_split(decode_ignore(data), "\n"), 1, FALSE, FALSE))

\* ------------------------------------------------------------ state

VARIABLES
    cryptex_dict,        \* self.cryptex_dict["entries"]
    symbol_to_codename,  \* self.symbol_to_codename
    codename_to_symbol,  \* self.codename_to_symbol
    pc,                  \* where the current call stands
    mode,                \* the mode argument of the current call
    how,                 \* what the current call is given: "first", "again", "reverse"
    source,              \* "lazy": input_stream is read from a file as it goes; "replay": a list
    input_stream,        \* the lines of input_stream (lazy: those read so far)
    consumed,            \* how many lines the generator has taken from input_stream
    in_condition,        \* local of stream_transcode_lines
    in_strings,          \* local of stream_transcode_lines
    held,                \* processed_line while the generator is suspended at the tag's yield
    yielded,             \* the lines handed to the consumer by the current generator
    origin,              \* for each yielded line, the index of the input line that produced it
    hist,                \* the finished calls on this instance, oldest first
    call,                \* the file-level operation in progress, "none" before one starts
    argv,                \* the command line __main__ was started with, "none" for a direct call
    exit_code,           \* the exit code of the process, "none" while it has not exited
    path_exists,         \* whether the top-level input path exists
    archive,             \* what is at the input path: an archive's entries in listing
                         \* order, or a rule file's lines
    output_dir,          \* the output location: [made, files, dirs]
    output_arg,          \* the output_file argument of a single-file operation, <<>> for None
    events,              \* what the file-level generator has yielded so far
    file_list,           \* local of stream_transcode_zip; the namelist in transcode_zip_file
    visited,             \* how many names of file_list the for loop has taken
    transcoded_count,    \* local of stream_transcode_zip; len(transcoded_files) otherwise
    open_handles,        \* the archive and file handles that are open
    temp_files,          \* the temporary files on disk, by the entry they were made for
    error                \* the exception that left the operation, "none" if none did

vars == <<cryptex_dict, symbol_to_codename, codename_to_symbol, pc, mode, how, source,
          input_stream, consumed, in_condition, in_strings, held, yielded, origin, hist,
          call, argv, exit_code, path_exists, archive, output_dir, output_arg, events,
          file_list, visited, transcoded_count, open_handles, temp_files, error>>

instance == <<cryptex_dict, symbol_to_codename, codename_to_symbol>>
generator == <<mode, how, source, input_stream, consumed, in_condition, in_strings, held,
               yielded, origin>>
request == <<call, argv, path_exists, archive, output_arg>>
files == <<call, argv, exit_code, path_exists, archive, output_dir, output_arg, events,
          file_list, visited, transcoded_count, open_handles, temp_files, error>>

Init ==
    /\ cryptex_dict = Snapshot
    /\ symbol_to_codename = _build_symbol_map(Snapshot)
    /\ codename_to_symbol = DictInvert(_build_symbol_map(Snapshot))
    /\ pc = "idle"
    /\ mode = "to_cryptex"
    /\ how = "first"
    /\ source = "lazy"
    /\ input_stream = <<>>
    /\ consumed = 0
    /\ in_condition = FALSE
    /\ in_strings = FALSE
    /\ held = <<>>
    /\ yielded = <<>>
    /\ origin = <<>>
    /\ hist = <<>>
    /\ call = "none"
    /\ argv = "none"
    /\ exit_code = "none"
    /\ path_exists = FALSE
    /\ archive = <<>>
    /\ output_dir = NoOutput
    /\ output_arg = <<>>
    /\ events = <<>>
    /\ file_list = <<>>
    /\ visited = 0
    /\ transcoded_count = 0
    /\ open_handles = {}
    /\ temp_files = {}
    /\ error = "none"

\* ------------------------------------------------------------ stream_transcode_lines

\* NewGenerator with the section flags kept from the call before
NewGeneratorKeepsSection(md, h, src, lines) ==
    /\ pc' = "created"
    /\ mode' = md
    /\ how' = h
    /\ source' = src
    /\ input_stream' = lines
    /\ consumed' = 0
    /\ UNCHANGED <<in_condition, in_strings>>
    /\ held' = <<>>
    /\ yielded' = <<>>
    /\ origin' = <<>>

\* the call creates the generator; its locals start as lines 286-289 set them
NewGenerator(md, h, src, lines) ==
    /\ pc' = "created"
    /\ mode' = md
    /\ how' = h
    /\ source' = src
    /\ input_stream' = lines
    /\ consumed' = 0
    /\ in_condition' = FALSE
    /\ in_strings' = FALSE
    /\ held' = <<>>
    /\ yielded' = <<>>
    /\ origin' = <<>>

\* a first call, over a file that is read as the generator asks for lines
stream_transcode_lines(md) ==
    /\ pc = "idle"
    /\ hist = <<>>
    /\ NewGenerator(md, "first", "lazy", <<>>)
    /\ UNCHANGED <<instance, hist, files>>

\* the same input and mode once more through the same instance
StreamAgain ==
    /\ pc = "done"
    /\ Len(hist) = 1
    /\ NewGenerator(hist[1].mode, "again", "replay", hist[1].input)
    /\ UNCHANGED <<instance, hist, files>>

\* the output of a forward call, or of its reversal, transcoded in reverse
StreamReverseOfOutput ==
    /\ pc = "done"
    /\ Len(hist) < MaxRuns
    /\ hist[1].mode = "to_cryptex"
    /\ hist[Len(hist)].how # "again"
    /\ NewGenerator("from_cryptex", "reverse", "replay", hist[Len(hist)].output)
    /\ UNCHANGED <<instance, hist, files>>

\* AtLoopTop holding also while the line behind a tag is still to be yielded
AtLoopTopOrTag == pc \in {"created", "yield_tag", "yield_line", "yield_payload", "loop"}

\* the generator is suspended where next() makes it take the next input line
AtLoopTop == pc \in {"created", "yield_line", "yield_payload", "loop"}

\* next(): the for loop takes `line` from input_stream and runs to its first yield,
\* or back to the loop's top when the line yields nothing
TakeLine(line) ==
    LET r == LoopBody(mode, codename_to_symbol, line, in_condition, in_strings)
    IN  /\ consumed' = consumed + 1
        /\ in_condition' = r.sec[1]
        /\ in_strings' = r.sec[2]
        /\ IF r.yields = <<>>
           THEN /\ pc' = "loop"
                /\ UNCHANGED <<yielded, origin, held>>
           ELSE /\ yielded' = Append(yielded, r.yields[1])
                /\ origin' = Append(origin, consumed + 1)
                /\ IF r.tagged
                   THEN pc' = "yield_tag" /\ held' = r.yields[2]
                   ELSE /\ pc' = IF mode = "from_cryptex"
                                    /\ str_contains(str_rstrip_nl(line), OriginalMarker)
                                 THEN "yield_payload" ELSE "yield_line"
                        /\ UNCHANGED held
        /\ UNCHANGED <<instance, mode, how, source, hist>>

\* the file delivers one more line
ReadLine ==
    /\ AtLoopTop
    /\ source = "lazy"
    /\ Len(input_stream) < MaxLines
    /\ \E l \in LinePool(mode) :
          /\ input_stream' = Append(input_stream, l \o Newline)
          /\ TakeLine(l \o Newline)
    /\ UNCHANGED files

\* the list delivers its next line
ReplayLine ==
    /\ AtLoopTop
    /\ source = "replay"
    /\ consumed < Len(input_stream)
    /\ UNCHANGED <<input_stream, files>>
    /\ TakeLine(input_stream[consumed + 1])

\* next() after the tag line: line 346 yields processed_line
ResumeAfterTag ==
    /\ pc = "yield_tag"
    /\ yielded' = Append(yielded, held)
    /\ origin' = Append(origin, consumed)
    /\ held' = <<>>
    /\ pc' = "yield_line"
    /\ UNCHANGED <<instance, mode, how, source, input_stream, consumed, in_condition,
                   in_strings, hist, files>>

\* input_stream is exhausted: the generator returns
EndOfInput ==
    /\ AtLoopTop
    /\ source = "lazy" \/ consumed = Len(input_stream)
    /\ pc' = "done"
    /\ hist' = Append(hist, [kind |-> "stream", mode |-> mode, how |-> how, input |-> input_stream,
                             output |-> yielded])
    /\ UNCHANGED <<instance, generator, files>>

\* next() in which reading input_stream raises, also while a tag's line is pending
ReadErrorAfterTag ==
    /\ AtLoopTop \/ pc = "yield_tag"
    /\ call = "none"
    /\ source = "lazy"
    /\ error' = "Exception"
    /\ pc' = "raised"
    /\ UNCHANGED <<instance, generator, hist, request, exit_code, output_dir, events,
                   file_list, visited, transcoded_count, open_handles, temp_files>>

\* next() in which reading input_stream raises: the for statement of line 291 asks
\* the iterator for a line and the exception leaves the generator
ReadError ==
    /\ AtLoopTop
    /\ call = "none"
    /\ source = "lazy"
    /\ error' = "Exception"
    /\ pc' = "raised"
    /\ UNCHANGED <<instance, generator, hist, request, exit_code, output_dir, events,
                   file_list, visited, transcoded_count, open_handles, temp_files>>

\* ------------------------------------------------------------ transcode_rule_content

ContentCall(md, h, content) ==
    /\ pc' = "returned"
    /\ hist' = Append(hist, [kind |-> "content", mode |-> md, how |-> h, input |-> content,
                             output |-> transcode_rule_content(codename_to_symbol, content, md)])
    /\ UNCHANGED <<instance, generator, files>>

transcode_content(md) ==
    /\ pc = "idle"
    /\ hist = <<>>
    /\ \E t \in Texts(md) : ContentCall(md, "first", str_join(t, "\n"))

ContentAgain ==
    /\ pc = "returned"
    /\ Len(hist) = 1
    /\ ContentCall(hist[1].mode, "again", hist[1].input)

ContentReverseOfOutput ==
    /\ pc = "returned"
    /\ Len(hist) < MaxRuns
    /\ hist[1].mode = "to_cryptex"
    /\ hist[Len(hist)].how # "again"
    /\ ContentCall("from_cryptex", "reverse", hist[Len(hist)].output)

\* ------------------------------------------------------------ specification

Next ==
    \/ \E md \in Modes : stream_transcode_lines(md)
    \/ StreamAgain
    \/ StreamReverseOfOutput
    \/ ReadLine
    \/ ReplayLine
    \/ ResumeAfterTag
    \/ EndOfInput
    \/ ReadError
    \/ \E md \in Modes : transcode_content(md)
    \/ ContentAgain
    \/ ContentReverseOfOutput

Spec == Init /\ [][Next]_vars

\* ------------------------------------------------------------ stream_transcode_zip

\* an operation is started on a path: the path's state and the output location's
Start(op, md, av, p, o, out) ==
    /\ pc = "idle"
    /\ call = "none"
    /\ hist = <<>>
    /\ call' = op
    /\ argv' = av
    /\ mode' = md
    /\ path_exists' = p.exists
    /\ archive' = p.entries
    /\ output_dir' = o
    /\ output_arg' = out

\* the states a path that should be an archive is in
ZipPaths ==
    {[exists |-> TRUE, entries |-> a] : a \in Archives} \cup {[exists |-> FALSE, entries |-> <<>>]}

\* the call returns a generator; nothing of the body has run
stream_transcode_zip(md, av) ==
    /\ pc = "idle"
    /\ \E p \in ZipPaths, o \in OutputStates : Start("stream_transcode_zip", md, av, p, o, <<>>)
    /\ pc' = "created"
    /\ UNCHANGED <<instance, how, source, input_stream, consumed, in_condition, in_strings,
                   held, yielded, origin, hist, exit_code, events, file_list, visited,
                   transcoded_count, open_handles, temp_files, error>>

\* the rule entries of a listing, last listed first
RuleEntriesReversed(names) ==
    LET l == SelectSeq(names, IsRuleEntry) IN [i \in DOMAIN l |-> l[Len(l) + 1 - i]]

\* the list comprehension of line 419
RuleEntries(names) == SelectSeq(names, IsRuleEntry)

\* the first next(): lines 409-423
ZipFirstNext ==
    /\ call = "stream_transcode_zip"
    /\ pc = "created"
    /\ IF ~path_exists
       THEN /\ error' = "FileNotFoundError"
            /\ pc' = "raised"
            /\ UNCHANGED <<open_handles, file_list, events>>
       ELSE /\ open_handles' = {"zip_ref"}
            /\ file_list' = RuleEntries(namelist(archive))
            /\ events' = <<[status |-> "started",
                            total_files |-> Len(RuleEntries(namelist(archive)))]>>
            /\ pc' = "yield_started"
            /\ UNCHANGED error
    /\ output_dir' = AfterExistsCheck(output_dir, path_exists)
    /\ UNCHANGED <<instance, generator, hist, request, exit_code,
                   visited, transcoded_count, temp_files>>

\* the generator is suspended at a yield inside the with block, before "completed"
ZipInLoop == pc \in {"yield_started", "yield_processing", "yield_error"}

\* the except clause without its yield: the exception leaves the generator
EntryFailedPropagates(file_info) ==
    /\ error' = "Exception"
    /\ open_handles' = {}
    /\ pc' = "raised"
    /\ UNCHANGED <<events, output_dir>>

\* lines 444-449: an exception raised in the try block becomes an "error" event
EntryFailed(file_info) ==
    /\ events' = Append(events, [status |-> "error", file |-> file_info])
    /\ pc' = "yield_error"
    /\ UNCHANGED <<output_dir, open_handles, error>>

\* transcoded_count after a pass that counts every entry it visits
NextCountAlways(count, written) == count + 1

\* transcoded_count after a pass of the loop: line 436 is reached only after the write
NextCount(count, written) == IF written THEN count + 1 ELSE count

\* next() with names left in file_list: one pass of the for loop, lines 425-449
ZipNextEntry ==
    /\ call = "stream_transcode_zip"
    /\ ZipInLoop
    /\ visited < Len(file_list)
    /\ LET file_info == file_list[visited + 1]
           member == Member(archive, file_info)
           transcoded_content == EntryContent(mode, codename_to_symbol, member.data)
           output_file == PathName(file_info)
           written == member.crc_ok /\ output_file \notin output_dir.dirs
       IN  /\ visited' = visited + 1
           /\ transcoded_count' = NextCount(transcoded_count, written)
           /\ IF written
              THEN /\ output_dir' = [output_dir EXCEPT
                                        !.files = DictSet(@, output_file, transcoded_content)]
                   /\ events' = Append(events,
                          [status |-> "processing", file |-> file_info, output |-> output_file,
                           progress |-> <<NextCount(transcoded_count, written),
                                          Len(file_list)>>])
                   /\ pc' = "yield_processing"
                   /\ UNCHANGED <<open_handles, error>>
              ELSE EntryFailed(file_info)
    /\ UNCHANGED <<instance, generator, hist, request, exit_code,
                   file_list, temp_files>>

\* next() with file_list exhausted: lines 451-456
ZipCompleted ==
    /\ call = "stream_transcode_zip"
    /\ ZipInLoop
    /\ visited = Len(file_list)
    /\ events' = Append(events, [status |-> "completed", total_files |-> Len(file_list),
                                 transcoded_files |-> transcoded_count])
    /\ pc' = "yield_completed"
    /\ UNCHANGED <<instance, generator, hist, request, exit_code,
                   output_dir, file_list, visited, transcoded_count, open_handles, temp_files,
                   error>>

\* next() after "completed": the with block is left and the generator returns
ZipReturn ==
    /\ call = "stream_transcode_zip"
    /\ pc = "yield_completed"
    /\ open_handles' = {}
    /\ pc' = "done"
    /\ UNCHANGED <<instance, generator, hist, request, exit_code,
                   output_dir, events, file_list, visited, transcoded_count, temp_files, error>>

\* the consumer drops the suspended generator: close() raises GeneratorExit at the
\* yield, which no "except Exception" catches, and the with block is left
ZipAbandon ==
    /\ call = "stream_transcode_zip"
    /\ argv = "none"
    /\ ZipInLoop \/ pc = "yield_completed"
    /\ open_handles' = {}
    /\ pc' = "closed"
    /\ UNCHANGED <<instance, generator, hist, request, exit_code,
                   output_dir, events, file_list, visited, transcoded_count, temp_files, error>>

\* ------------------------------------------------------------ transcode_zip_file

\* the call, lines 219-227: it runs up to the for loop, or raises
transcode_zip_file(md) ==
    /\ pc = "idle"
    /\ \E p \in ZipPaths, o \in OutputStates :
          /\ Start("transcode_zip_file", md, "none", p, AfterExistsCheck(o, p.exists), <<>>)
          /\ file_list' = namelist(p.entries)
          /\ IF p.exists
             THEN open_handles' = {"zip_ref"} /\ pc' = "in_loop" /\ UNCHANGED error
             ELSE error' = "FileNotFoundError" /\ pc' = "raised" /\ UNCHANGED open_handles
    /\ UNCHANGED <<instance, how, source, input_stream, consumed, in_condition, in_strings,
                   held, yielded, origin, hist, exit_code, events, visited, transcoded_count,
                   temp_files>>

\* one pass of the for loop, lines 227-240
ZipFileNextName ==
    /\ call = "transcode_zip_file"
    /\ pc = "in_loop"
    /\ visited < Len(file_list)
    /\ LET file_info == file_list[visited + 1]
           member == Member(archive, file_info)
           transcoded == transcode_rule_content(codename_to_symbol,
                                                decode_ignore(member.data), mode)
           output_file == PathName(file_info)
       IN  /\ visited' = visited + 1
           /\ IF ~IsRuleEntry(file_info)
              THEN UNCHANGED <<pc, output_dir, transcoded_count, open_handles, temp_files, error>>
              ELSE IF member.crc_ok /\ output_file \notin output_dir.dirs
              THEN \* tmp is written and closed, the output is written, tmp is unlinked
                   /\ output_dir' = [output_dir EXCEPT
                                        !.files = DictSet(@, output_file, transcoded)]
                   /\ transcoded_count' = transcoded_count + 1
                   /\ UNCHANGED <<pc, open_handles, temp_files, error>>
              ELSE \* read (231) or write_text (238) raises: both with blocks are left,
                   \* tmp was made with delete=False and line 240 is not reached
                   /\ temp_files' = temp_files \cup {visited + 1}
                   /\ open_handles' = {}
                   /\ error' = "Exception"
                   /\ pc' = "raised"
                   /\ UNCHANGED <<output_dir, transcoded_count>>
    /\ UNCHANGED <<instance, generator, hist, request, exit_code, events, file_list>>

\* the namelist is exhausted: the with block is left and the list is returned
ZipFileReturn ==
    /\ call = "transcode_zip_file"
    /\ pc = "in_loop"
    /\ visited = Len(file_list)
    /\ open_handles' = {}
    /\ pc' = "returned"
    /\ UNCHANGED <<instance, generator, hist, request, exit_code, output_dir, events,
                   file_list, visited, transcoded_count, temp_files, error>>

\* ------------------------------------------------------------ stream_transcode_file

\* the states a path that should be a rule file is in: absent, or a file of some lines
FilePaths(md) ==
    {[exists |-> TRUE, entries |-> t] : t \in FileTexts(md)}
        \cup {[exists |-> FALSE, entries |-> <<>>]}

\* the output_file argument with the state of its directory: None, or a path in a
\* directory that may exist and may hold a directory of that name
OutputArgs == {<<<<>>, NoOutput>>} \cup {<<OutputFile, o>> : o \in OutputStates}

\* the lines iterating over the opened file gives
FileLines(text) == [i \in DOMAIN text |-> text[i] \o Newline]

\* the call returns a generator; nothing of the body has run
stream_transcode_file(md, av) ==
    /\ pc = "idle"
    /\ \E p \in FilePaths(md), a \in OutputArgs :
          Start("stream_transcode_file", md, av, p, a[2], a[1])
    /\ pc' = "created"
    /\ UNCHANGED <<instance, how, source, input_stream, consumed, in_condition, in_strings,
                   held, yielded, origin, hist, exit_code, events, file_list, visited,
                   transcoded_count, open_handles, temp_files, error>>

\* the first next(), lines 362-370: the files are opened and the line generator made
FileFirstNext ==
    /\ call = "stream_transcode_file"
    /\ pc = "created"
    /\ IF ~path_exists
       THEN /\ error' = "FileNotFoundError"
            /\ pc' = "raised"
            /\ UNCHANGED <<generator, output_dir, open_handles>>
       ELSE IF output_arg # <<>> /\ output_arg \in output_dir.dirs
       THEN \* open(output_file, 'w') raises and the with block of f_in is left
            /\ error' = "Exception"
            /\ pc' = "raised"
            /\ output_dir' = [output_dir EXCEPT !.made = TRUE]
            /\ UNCHANGED <<generator, open_handles>>
       ELSE /\ input_stream' = FileLines(archive)
            /\ consumed' = 0
            /\ in_condition' = FALSE
            /\ in_strings' = FALSE
            /\ held' = <<>>
            /\ yielded' = <<>>
            /\ origin' = <<>>
            /\ UNCHANGED <<mode, how, source>>
            /\ pc' = "loop"
            /\ open_handles' = IF output_arg # <<>> THEN {"f_in", "f_out"} ELSE {"f_in"}
            /\ output_dir' = IF output_arg # <<>>
                             THEN [output_dir EXCEPT !.made = TRUE,
                                                     !.files = DictSet(@, output_arg, <<>>)]
                             ELSE output_dir
            /\ UNCHANGED error
    /\ UNCHANGED <<instance, hist, request, exit_code, events, file_list, visited,
                   transcoded_count, temp_files>>

\* f_out.write(line) for a line the line generator has yielded
WriteOut(line) ==
    output_dir' = IF output_arg # <<>>
                  THEN [output_dir EXCEPT !.files = DictSet(@, output_arg,
                                                           DictGet(@, output_arg) \o line)]
                  ELSE output_dir

\* next(): the line generator takes the file's next line and runs to its yield
FileNextLine ==
    /\ call = "stream_transcode_file"
    /\ pc \in {"loop", "yield_line", "yield_payload"}
    /\ consumed < Len(input_stream)
    /\ TakeLine(input_stream[consumed + 1])
    /\ LET r == LoopBody(mode, codename_to_symbol, input_stream[consumed + 1],
                         in_condition, in_strings)
       IN  IF r.yields = <<>> THEN UNCHANGED output_dir ELSE WriteOut(r.yields[1])
    /\ UNCHANGED <<input_stream, call, argv, exit_code, path_exists, archive, output_arg,
                   events, file_list, visited, transcoded_count, open_handles, temp_files,
                   error>>

\* next() after the tag line
FileResumeAfterTag ==
    /\ call = "stream_transcode_file"
    /\ pc = "yield_tag"
    /\ yielded' = Append(yielded, held)
    /\ origin' = Append(origin, consumed)
    /\ held' = <<>>
    /\ pc' = "yield_line"
    /\ WriteOut(held)
    /\ UNCHANGED <<instance, mode, how, source, input_stream, consumed, in_condition,
                   in_strings, hist, request, exit_code, events, file_list, visited,
                   transcoded_count, open_handles, temp_files, error>>

\* next() in which f_out.write raises: both with blocks are left
FileWriteRaises ==
    /\ call = "stream_transcode_file"
    /\ pc \in {"loop", "yield_tag", "yield_line", "yield_payload"}
    /\ output_arg # <<>>
    /\ pc = "yield_tag" \/ consumed < Len(input_stream)
    /\ open_handles' = {}
    /\ error' = "Exception"
    /\ pc' = "raised"
    /\ UNCHANGED <<instance, generator, hist, request, exit_code, output_dir, events,
                   file_list, visited, transcoded_count, temp_files>>

\* next() with the file exhausted: f_out is closed and line 373 yields, or, without
\* an output file, f_in is closed and the generator returns
FileEndOfInput ==
    /\ call = "stream_transcode_file"
    /\ pc \in {"loop", "yield_line", "yield_payload"}
    /\ consumed = Len(input_stream)
    /\ IF output_arg # <<>>
       THEN open_handles' = {"f_in"} /\ pc' = "yield_saved"
       ELSE open_handles' = {} /\ pc' = "done"
    /\ UNCHANGED <<instance, generator, hist, request, exit_code, output_dir, events,
                   file_list, visited, transcoded_count, temp_files, error>>

\* next() after line 373: f_in is closed and the generator returns
FileReturn ==
    /\ call = "stream_transcode_file"
    /\ pc = "yield_saved"
    /\ open_handles' = {}
    /\ pc' = "done"
    /\ UNCHANGED <<instance, generator, hist, request, exit_code, output_dir, events,
                   file_list, visited, transcoded_count, temp_files, error>>

\* the consumer drops the suspended generator: GeneratorExit leaves the with blocks
FileAbandon ==
    /\ call = "stream_transcode_file"
    /\ argv = "none"
    /\ pc \in {"yield_tag", "yield_line", "yield_payload", "yield_saved"}
    /\ open_handles' = {}
    /\ pc' = "closed"
    /\ UNCHANGED <<instance, generator, hist, request, exit_code, output_dir, events,
                   file_list, visited, transcoded_count, temp_files, error>>

\* ------------------------------------------------------------ transcode_rule_file

\* the whole call, lines 200-213
transcode_rule_file(md, av) ==
    /\ pc = "idle"
    /\ \E p \in FilePaths(md), a \in OutputArgs :
          LET content == str_join(p.entries, "\n")
              transcoded == transcode_rule_content(codename_to_symbol, content, md)
              written == p.exists /\ a[1] # <<>> /\ a[1] \notin a[2].dirs
              o == IF a[1] # <<>> THEN AfterExistsCheck(a[2], p.exists) ELSE a[2]
          IN  /\ Start("transcode_rule_file", md, av, p,
                       IF written THEN [o EXCEPT !.files = DictSet(@, a[1], transcoded)] ELSE o,
                       a[1])
              /\ error' = IF ~p.exists THEN "FileNotFoundError"
                          ELSE IF a[1] # <<>> /\ ~written THEN "Exception" ELSE "none"
              /\ pc' = IF p.exists /\ (a[1] = <<>> \/ written) THEN "returned" ELSE "raised"
              /\ yielded' = IF p.exists /\ a[1] = <<>> THEN <<transcoded>> ELSE <<>>
    /\ UNCHANGED <<instance, how, source, input_stream, consumed, in_condition, in_strings,
                   held, origin, hist, exit_code, events, file_list, visited,
                   transcoded_count, open_handles, temp_files>>

\* ------------------------------------------------------------ __main__

\* the lines stream_transcode_stdin_stdout writes for the lines of stdin
StdinOutput(md, lines) == StreamFrom(md, codename_to_symbol, lines, 1, FALSE, FALSE)

\* --stdin or '-', lines 555-557 with 378-394: the loop writes line after line to
\* stdout; a write that raises is caught at line 392 and ends the process
main_stdin(md) ==
    /\ pc = "idle"
    /\ call = "none"
    /\ \E t \in FileTexts(md) :
          \E k \in 0..Len(StdinOutput(md, FileLines(t))) :
              /\ input_stream' = FileLines(t)
              /\ yielded' = SubSeq(StdinOutput(md, FileLines(t)), 1, k)
              /\ exit_code' = IF k < Len(StdinOutput(md, FileLines(t))) THEN "1" ELSE "0"
    /\ call' = "stream_transcode_stdin_stdout"
    /\ argv' = "stdin"
    /\ mode' = md
    /\ pc' = "exited"
    /\ UNCHANGED <<instance, how, source, consumed, in_condition, in_strings, held, origin,
                   hist, path_exists, archive, output_dir, output_arg, events, file_list,
                   visited, transcoded_count, open_handles, temp_files, error>>

\* no input argument, lines 559-561
main_no_input ==
    /\ pc = "idle"
    /\ call = "none"
    /\ argv' = "no_input"
    /\ exit_code' = "1"
    /\ pc' = "exited"
    /\ UNCHANGED <<instance, generator, hist, call, path_exists, archive, output_dir,
                   output_arg, events, file_list, visited, transcoded_count, open_handles,
                   temp_files, error>>

\* --no-transcode, lines 565-567 with 244-270: the path is reported, not opened
main_no_transcode ==
    /\ pc = "idle"
    /\ call = "none"
    /\ \E exists \in BOOLEAN : path_exists' = exists
    /\ call' = "add_rule_file"
    /\ argv' = "no_transcode"
    /\ exit_code' = "0"
    /\ pc' = "exited"
    /\ UNCHANGED <<instance, generator, hist, archive, output_dir, output_arg, events,
                   file_list, visited, transcoded_count, open_handles, temp_files, error>>

\* --cross-convert, lines 568-581: an archive is refused, another path is opened
\* (which raises when it does not exist) and streamed to stdout
main_cross_convert ==
    /\ pc = "idle"
    /\ call = "none"
    /\ \E zip \in BOOLEAN, exists \in BOOLEAN :
          /\ path_exists' = exists
          /\ call' = IF zip THEN "none" ELSE "cross_convert_stream"
          /\ error' = IF ~zip /\ ~exists THEN "FileNotFoundError" ELSE "none"
          /\ exit_code' = IF zip \/ ~exists THEN "1" ELSE "0"
    /\ argv' = "cross_convert"
    /\ pc' = "exited"
    /\ UNCHANGED <<instance, generator, hist, archive, output_dir, output_arg, events,
                   file_list, visited, transcoded_count, open_handles, temp_files>>

\* --stream or a '.zip' suffix, lines 582-600: the generator is consumed to its end
main_stream(md) ==
    \/ stream_transcode_zip(md, "stream")
    \/ stream_transcode_file(md, "stream")

\* no option and no '.zip' suffix, lines 608-614
main_standard(md) == transcode_rule_file(md, "standard")

\* the process ends: with 0 at the end of the script, with 1 by the traceback of an
\* exception nothing caught
ProcessExit ==
    /\ argv \in {"stream", "standard"}
    /\ exit_code = "none"
    /\ pc \in {"done", "returned", "raised"}
    /\ exit_code' = IF pc = "raised" THEN "1" ELSE "0"
    /\ UNCHANGED <<instance, pc, generator, hist, request, path_exists, output_dir, events,
                   file_list, visited, transcoded_count, open_handles, temp_files, error>>

\* ------------------------------------------------------------ the file-level operations

NextIO ==
    \/ \E md \in Modes : stream_transcode_zip(md, "none")
    \/ ZipFirstNext
    \/ ZipNextEntry
    \/ ZipCompleted
    \/ ZipReturn
    \/ ZipAbandon
    \/ \E md \in Modes : transcode_zip_file(md)
    \/ ZipFileNextName
    \/ ZipFileReturn
    \/ \E md \in Modes : stream_transcode_file(md, "none")
    \/ FileFirstNext
    \/ FileNextLine
    \/ FileResumeAfterTag
    \/ FileWriteRaises
    \/ FileEndOfInput
    \/ FileReturn
    \/ FileAbandon
    \/ \E md \in Modes : transcode_rule_file(md, "none")
    \/ \E md \in Modes : main_stdin(md)
    \/ main_no_input
    \/ main_no_transcode
    \/ main_cross_convert
    \/ \E md \in Modes : main_stream(md)
    \/ \E md \in Modes : main_standard(md)
    \/ ProcessExit

SpecIO == Init /\ [][NextIO]_vars

\* ------------------------------------------------------------ reading a run

\* input line k of the current generator, without its line terminator
InputLine(k) == str_rstrip_nl(input_stream[k])

\* the generator has yielded everything input line k makes it yield
Finished(k) ==
    /\ k \in 1..consumed
    /\ k = consumed => pc \in {"yield_line", "yield_payload", "loop", "done", "raised"}

\* the lines the current generator yielded while it held input line k, in order
YieldsOf(k) ==
    LET J == {j \in DOMAIN origin : origin[j] = k}
    IN  [i \in 1..Cardinality(J) |-> yielded[(CHOOSE j \in J : \A h \in J : j <= h) + i - 1]]

IsHeader(line) ==
    is_condition_header(line) \/ is_strings_header(line) \/ is_meta_or_rule_header(line)

\* the last section header among input lines 1..k (0 if there is none)
LastHeader(k) ==
    LET H == {j \in 1..k : IsHeader(InputLine(j))}
    IN  IF H = {} THEN 0 ELSE CHOOSE j \in H : \A h \in H : h <= j

\* input line k lies in the condition section
InConditionSection(k) == LastHeader(k) # 0 /\ is_condition_header(InputLine(LastHeader(k)))

\* input line k lies in the strings or the meta section
InMetaOrStringsSection(k) ==
    /\ LastHeader(k) # 0
    /\ ~is_condition_header(InputLine(LastHeader(k)))
    /\ \/ is_strings_header(InputLine(LastHeader(k)))
       \/ OccursAt(str_lower(InputLine(LastHeader(k))), MetaHeader,
                   SkipSpace(InputLine(LastHeader(k)), 1))

HasDotted(line) == \E i \in DOMAIN line : MatchDotted(line, i) # <<>>

\* every dotted reference of the line names a module of the alias table and, when it
\* is a call, a symbol of the dictionary
RefsKnown(line) ==
    \A i \in DOMAIN line :
        LET m == MatchDotted(line, i)
        IN  m # <<>> =>
              /\ DictHas(module_mappings, str_lower(SubSeq(line, i, m[1])))
              /\ MatchDottedCall(line, i) # <<>> =>
                    DictHas(symbol_to_codename,
                            SubSeq(line, i, m[1]) \o <<"_">> \o SubSeq(line, m[1] + 2, m[2]))

\* the lines of a finished call's input or output, without line terminators
LinesOf(kind, text) ==
    IF kind = "stream" THEN [i \in DOMAIN text |-> str_rstrip_nl(text[i])]
    ELSE str_split(text, "\n")

\* the first call was forward and call n reversed the output of call n-1
ReversedForward(n) ==
    /\ Len(hist) >= n
    /\ hist[1].mode = "to_cryptex"
    /\ \A i \in 2..n : hist[i].how = "reverse"

ScenarioALine == <<" "," "," "," ","p","e",".","g","e","t","_","s","e","c","t","i","o","n","(","0",")"," ",">"," ","5">>
ScenarioATag == <<" "," "," "," ","/","/"," ","O","r","i","g","i","n","a","l",":"," ","p","e",".","g","e","t","_","s","e","c","t","i","o","n","(","0",")"," ",">"," ","5">>
ScenarioAOut == <<" "," "," "," ","I","r","o","n","C","u","r","t","a","i","n",".","g","e","t","_","s","e","c","t","i","o","n","(","0",")"," ",">"," ","5">>
ScenarioBLine == <<"f","o","o",".","b","a","r","(","1",")">>
ScenarioBOut == <<"M","o","d","u","l","e","-","F","o","o",".","b","a","r","(","1",")">>

\* ------------------------------------------------------------ claims

\* C1: round-trip law. For every rule text whose dotted references all use modules
\* of the alias table and symbols of the dictionary, transcoding it forward and then
\* transcoding the result in reverse gives the text back, line for line and with
\* the same number of lines, through stream_transcode_lines and through
\* transcode_rule_content.
RoundTripLaw ==
    (/\ ReversedForward(2)
     /\ \A i \in DOMAIN LinesOf(hist[1].kind, hist[1].input) :
            RefsKnown(LinesOf(hist[1].kind, hist[1].input)[i]))
    => hist[2].output = hist[1].input

\* C2: scenario A, forward. In the condition section the line
\* '    pe.get_section(0) > 5' yields exactly the tag line
\* '    // Original: pe.get_section(0) > 5' and then
\* '    IronCurtain.get_section(0) > 5': the alias is not aliased a second time.
ScenarioAForward ==
    /\ \A k \in 1..consumed :
          (/\ mode = "to_cryptex"
           /\ Finished(k)
           /\ InConditionSection(k)
           /\ InputLine(k) = ScenarioALine)
          => YieldsOf(k) = <<ScenarioATag \o Newline, ScenarioAOut \o Newline>>
    /\ \A i \in DOMAIN hist :
          (/\ hist[i].kind = "content"
           /\ hist[i].mode = "to_cryptex"
           /\ hist[i].input = str_join(<<ConditionHeader, ScenarioALine>>, "\n"))
          => hist[i].output = str_join(<<ConditionHeader, ScenarioATag, ScenarioAOut>>, "\n")

\* C3: reverse pair consumption. Reversing the output of a forward pass, a line that
\* carries an OriginalTag yields exactly one line, the tag's payload, and the
\* obfuscated line that follows the tag yields no line.
ReversePairConsumption ==
    \A k \in 1..consumed :
        (/\ mode = "from_cryptex"
         /\ how = "reverse"
         /\ Len(hist) = 1
         /\ Finished(k + 1)
         /\ OriginalMatch(InputLine(k)) # <<>>)
        => /\ YieldsOf(k) = <<OriginalMatch(InputLine(k))[1] \o Newline>>
           /\ YieldsOf(k + 1) = <<>>

\* C4: scenario B, unknown module. In the condition section the line 'foo.bar(1)'
\* is transformed to 'Module-Foo.bar(1)', with one 'Module-' prefix.
ScenarioBUnknownModule ==
    \A k \in 1..consumed :
        (/\ mode = "to_cryptex"
         /\ Finished(k)
         /\ InConditionSection(k)
         /\ InputLine(k) = ScenarioBLine)
        => /\ YieldsOf(k) # <<>>
           /\ YieldsOf(k)[Len(YieldsOf(k))] = ScenarioBOut \o Newline

\* C5: section scoping, forward. Every line the forward transform processes outside
\* the condition section (after a 'strings:' or a 'meta:' header, or before any
\* header) is yielded as exactly one line with unchanged text and no tag, even when
\* it holds an identifier.identifier token.
SectionScopingForward ==
    \A k \in 1..consumed :
        (/\ mode = "to_cryptex"
         /\ Finished(k)
         /\ ~InConditionSection(k))
        => YieldsOf(k) = <<InputLine(k) \o Newline>>

\* a dotted line after 'condition:' and then 'strings:' has been yielded unchanged
SectionScopingWitness ==
    \E k \in 1..consumed :
        /\ mode = "to_cryptex"
        /\ Finished(k)
        /\ LastHeader(k) \in 2..(k - 1)
        /\ is_strings_header(InputLine(LastHeader(k)))
        /\ \E j \in 1..(LastHeader(k) - 1) : is_condition_header(InputLine(j))
        /\ HasDotted(InputLine(k))
        /\ YieldsOf(k) = <<InputLine(k) \o Newline>>

\* C6: reverse preserves meta and strings content. In the reverse direction a line
\* without an OriginalTag that lies in the meta or strings section is yielded
\* verbatim, as one line.
ReversePreservesMetaStrings ==
    \A k \in 1..consumed :
        (/\ mode = "from_cryptex"
         /\ Finished(k)
         /\ InMetaOrStringsSection(k)
         /\ ~str_contains(InputLine(k), OriginalMarker))
        => YieldsOf(k) = <<InputLine(k) \o Newline>>

\* C7: reverse idempotence. reverse(reverse(forward(R))) = reverse(forward(R)), and
\* the output of one reverse pass holds no OriginalTag line, through
\* stream_transcode_lines and through transcode_rule_content.
ReverseIdempotence ==
    ReversedForward(3) =>
        /\ hist[3].output = hist[2].output
        /\ \A i \in DOMAIN LinesOf(hist[2].kind, hist[2].output) :
              ~str_contains(LinesOf(hist[2].kind, hist[2].output)[i], OriginalMarker)

\* C8: determinism and restartability. The same line sequence run twice in the same
\* direction through one instance gives the same output: the output depends on the
\* lines and the symbol map only, not on the earlier run.
Determinism ==
    (/\ Len(hist) >= 2
     /\ hist[2].how = "again"
     /\ hist[2].mode = hist[1].mode
     /\ hist[2].input = hist[1].input)
    => hist[2].output = hist[1].output

\* a stream was run twice over a text that ends in the condition section and whose
\* output differs from its input
DeterminismWitness ==
    /\ Len(hist) >= 2
    /\ hist[2].how = "again"
    /\ hist[2].kind = "stream"
    /\ hist[2].input = hist[1].input
    /\ hist[2].output # hist[2].input
    /\ in_condition
    /\ hist[2].output = hist[1].output

\* C9: malformed tag fallback. In the reverse direction a line that carries the
\* OriginalTag marker with a payload that cannot be parsed is not dropped: it is
\* reversed by substitution and yields one line.
MalformedTagFallback ==
    \A k \in 1..consumed :
        (/\ mode = "from_cryptex"
         /\ Finished(k)
         /\ str_contains(InputLine(k), OriginalMarker)
         /\ OriginalMatch(InputLine(k)) = <<>>)
        => YieldsOf(k) = <<ReverseLine(codename_to_symbol, InputLine(k)) \o Newline>>

\* the module aliases, the codenames and the codenames' function parts
Aliases ==
    {reverse_module_map[i][1] : i \in DOMAIN reverse_module_map}
    \cup {codename_to_symbol[i][1] : i \in DOMAIN codename_to_symbol}
    \cup {str_split_last(codename_to_symbol[i][1], "-") : i \in DOMAIN codename_to_symbol}

\* sub occurs in line at i as a whole word
WholeWordAt(line, sub, i) ==
    /\ OccursAt(line, sub, i)
    /\ i = 1 \/ ~IsWord(line[i - 1])
    /\ i + Len(sub) > Len(line) \/ ~IsWord(line[i + Len(sub)])

\* C10: anchored reverse substitution. In the reverse direction, on a line without a
\* tag, an alias is replaced only where it occurs as a whole word; so a line in
\* which no alias occurs as a whole word is yielded unchanged.
AnchoredReverseSubstitution ==
    \A k \in 1..consumed :
        (/\ mode = "from_cryptex"
         /\ Finished(k)
         /\ ~str_contains(InputLine(k), OriginalMarker)
         /\ \A a \in Aliases : \A i \in DOMAIN InputLine(k) : ~WholeWordAt(InputLine(k), a, i))
        => /\ YieldsOf(k) # <<>>
           /\ YieldsOf(k)[Len(YieldsOf(k))] = InputLine(k) \o Newline

\* ------------------------------------------------------------ reading an archive run

\* the positions of events that have the given status
EventsWith(status) == {i \in DOMAIN events : events[i].status = status}

\* the generator of stream_transcode_zip was run until it ended, on a path that exists
ZipConsumed ==
    call = "stream_transcode_zip" /\ path_exists /\ pc \in {"done", "raised"}

\* C11: archive event framing. In a run of stream_transcode_zip on an existing
\* archive, "started" is the first event and the only one of its kind, nothing has
\* been read or written when it is emitted, "completed" is only ever the last event
\* and follows the last entry, and a run consumed to its end ends with "completed".
EventFraming ==
    (call = "stream_transcode_zip" /\ path_exists) =>
        /\ pc \notin {"idle", "created"} => events # <<>>
        /\ EventsWith("started") = {i \in DOMAIN events : i = 1}
        /\ pc = "yield_started" =>
              visited = 0 /\ transcoded_count = 0 /\ output_dir.files = <<>>
        /\ \A i \in EventsWith("completed") : i = Len(events) /\ visited = Len(file_list)
        /\ pc \in {"done", "raised"} => EventsWith("completed") = {Len(events)}

\* a run consumed to its end in which an entry failed
EventFramingWitness == ZipConsumed /\ EventsWith("error") # {}

\* the members of the archive whose name ends in .yar or .yara, by listing position
RuleMembers ==
    {i \in DOMAIN archive :
        str_endswith(archive[i].name, YarSuffix) \/ str_endswith(archive[i].name, YaraSuffix)}

\* C12: per-entry failure is not fatal. Every rule entry the loop has visited has
\* produced exactly one event, "processing" or "error", so the two kinds together
\* number the visited entries; a run consumed to its end has visited every rule
\* entry of the archive, whatever failed before, and the two kinds together number
\* total_files of "started", which is the number of rule entries.
PerEntryEvents ==
    (call = "stream_transcode_zip" /\ path_exists /\ events # <<>>) =>
        /\ EventsWith("processing") \cap EventsWith("error") = {}
        /\ Cardinality(EventsWith("processing")) + Cardinality(EventsWith("error")) = visited
        /\ \A i \in 2..(visited + 1) : events[i].status \in {"processing", "error"}
        /\ events[1].total_files = Cardinality(RuleMembers)
        /\ ZipConsumed =>
              /\ visited = Cardinality(RuleMembers)
              /\ Cardinality(EventsWith("processing")) + Cardinality(EventsWith("error"))
                    = events[1].total_files

\* a run consumed to its end in which an entry was transcoded after another failed
PerEntryEventsWitness ==
    /\ ZipConsumed
    /\ \E i \in EventsWith("error") : \E j \in EventsWith("processing") : i < j

\* the member holds a byte sequence that is not valid UTF-8
HasInvalidBytes(e) == \E i \in DOMAIN e.data : e.data[i] = InvalidByte

\* nothing stands in the way of reading member i and writing its output file
Unhindered(i) == archive[i].crc_ok /\ PathName(archive[i].name) \notin output_dir.dirs

\* an archive of three rule entries, the second with invalid bytes, the first and the
\* third valid, run to its end
InvalidSecondOfThree ==
    /\ ZipConsumed
    /\ Len(archive) = 3
    /\ RuleMembers = {1, 2, 3}
    /\ HasInvalidBytes(archive[2])
    /\ \A i \in {1, 3} : ~HasInvalidBytes(archive[i]) /\ Unhindered(i)

ProcessingUpTo(i) == Cardinality({j \in EventsWith("processing") : j <= i})

\* C14: archive progress counts. The k-th "processing" event reports k of
\* total_files, the count is the number of "processing" events emitted so far (so it
\* never goes down and never includes an entry that produced "error"), and
\* "completed" reports the number of "processing" events of the run.
ProgressCounts ==
    (call = "stream_transcode_zip" /\ path_exists /\ events # <<>>) =>
        /\ \A i \in EventsWith("processing") :
              events[i].progress = <<ProcessingUpTo(i), events[1].total_files>>
        /\ transcoded_count = Cardinality(EventsWith("processing"))
        /\ \A i \in EventsWith("completed") :
              events[i].transcoded_files = Cardinality(EventsWith("processing"))

\* a run consumed to its end with two transcoded entries and a failed one
ProgressCountsWitness ==
    /\ ZipConsumed
    /\ Cardinality(EventsWith("processing")) = 2
    /\ EventsWith("error") # {}

\* the names of the archive's rule entries in listing order
ListedRuleNames ==
    SelectSeq([i \in DOMAIN archive |-> archive[i].name],
              LAMBDA n : str_endswith(n, YarSuffix) \/ str_endswith(n, YaraSuffix))

\* the entries named by the "processing" and "error" events, in the order of the events
NamedByEvents ==
    LET E == SelectSeq(events, LAMBDA e : e.status \in {"processing", "error"})
    IN  [i \in DOMAIN E |-> E[i].file]

\* C15: archive ordering. The entries named by the "processing" and "error" events
\* are, in order, the first rule entries of the archive's listing, as many as have
\* been visited; after a run consumed to its end they are the whole listing
\* restricted to rule entries, none reordered, skipped or visited twice.
ArchiveOrdering ==
    (call = "stream_transcode_zip" /\ path_exists) =>
        /\ Len(NamedByEvents) <= Len(ListedRuleNames)
        /\ NamedByEvents = SubSeq(ListedRuleNames, 1, Len(NamedByEvents))
        /\ ZipConsumed => NamedByEvents = ListedRuleNames

\* a consumed run over an archive that lists a non-rule entry before two rule
\* entries of different names
ArchiveOrderingWitness ==
    /\ ZipConsumed
    /\ Len(archive) = 3
    /\ RuleMembers = {2, 3}
    /\ archive[2].name # archive[3].name
    /\ Len(NamedByEvents) = 2

\* the listing position of the k-th rule entry of the archive
RuleMemberAt(k) ==
    CHOOSE i \in RuleMembers : Cardinality({j \in RuleMembers : j <= i}) = k

\* the transcoding of member i's text on its own, from a fresh section state
AloneOutput(i) ==
    str_concat(StreamFrom(mode, codename_to_symbol,
                          str_split(SelectSeq(archive[i].data, LAMBDA b : b # InvalidByte), "\n"),
                          1, FALSE, FALSE))

\* C16: one output file per entry. After a run consumed to its end every entry with
\* a "processing" event has an output file under its base name that holds its
\* transcoded text, and the output directory holds as many files as "completed"
\* reports transcoded.
OneOutputPerEntry ==
    (ZipConsumed /\ pc = "done") =>
        /\ Len(output_dir.files) = events[Len(events)].transcoded_files
        /\ \A k \in 1..visited :
              events[k + 1].status = "processing" =>
                  /\ DictHas(output_dir.files, PathName(events[k + 1].file))
                  /\ DictGet(output_dir.files, PathName(events[k + 1].file))
                        = AloneOutput(RuleMemberAt(k))

\* C17: entry independence. The file written for an entry, as it stands when the
\* entry's "processing" event is yielded, is the transcoding of that entry's text
\* alone from a fresh section state, whatever was listed or processed around it.
EntryIndependence ==
    (call = "stream_transcode_zip" /\ pc = "yield_processing") =>
        DictGet(output_dir.files, PathName(file_list[visited])) = AloneOutput(RuleMemberAt(visited))

\* ------------------------------------------------------------ reading a file-level call

PathOperations ==
    {"transcode_rule_file", "transcode_zip_file", "stream_transcode_file", "stream_transcode_zip"}

\* C18: InputNotFound is fatal and free of side effects. When the path does not
\* exist, the two plain methods have raised FileNotFoundError when the call is over
\* and the two generators raise it on their first next(); no line has been
\* transformed, no event emitted, no handle opened, and the output location is as
\* it was before the call: no file in it and no directory made.
NotFoundSideEffectFree ==
    (call \in PathOperations /\ ~path_exists) =>
        /\ pc \in {"created", "raised"}
        /\ call \in {"transcode_rule_file", "transcode_zip_file"} => pc = "raised"
        /\ pc = "raised" => error = "FileNotFoundError"
        /\ yielded = <<>> /\ consumed = 0 /\ visited = 0 /\ transcoded_count = 0
        /\ events = <<>>
        /\ output_dir \in OutputStates
        /\ open_handles = {} /\ temp_files = {}

\* stream_transcode_zip has raised for a missing archive whose output directory
\* did not exist
NotFoundWitness ==
    /\ call = "stream_transcode_zip"
    /\ ~path_exists
    /\ pc = "raised"
    /\ error = "FileNotFoundError"
    /\ output_dir = NoOutput

\* C19: exit code policy. The process exits with a non-zero code only when the
\* top-level input path cannot be opened.
ExitCodePolicy ==
    exit_code = "1" =>
        /\ argv \in {"no_transcode", "cross_convert", "stream", "standard"}
        /\ ~path_exists

\* C20: guaranteed release. When stream_transcode_zip, stream_transcode_file or
\* transcode_zip_file is over, by returning, by raising or by the consumer dropping
\* the generator, no handle it opened is open and no temporary file it made is left.
GuaranteedRelease ==
    (/\ call \in {"stream_transcode_zip", "stream_transcode_file", "transcode_zip_file"}
     /\ pc \in {"done", "returned", "raised", "closed"})
        => open_handles = {} /\ temp_files = {}

\* ------------------------------------------------------------ reading a stream

\* s is an initial part of t
IsPrefix(s, t) == Len(s) <= Len(t) /\ s = SubSeq(t, 1, Len(s))

\* everything stream_transcode_lines yields for the given lines, from fresh flags
WholeOutput(md, lines) == StreamFrom(md, codename_to_symbol, lines, 1, FALSE, FALSE)

\* a generator of stream_transcode_lines called directly is or was running
StreamRun == call = "none" /\ pc \notin {"idle", "returned"}

\* C21: an I/O error is terminal and leaves no partial line. When reading the input
\* raises after k lines the generator ends, and what it has yielded is exactly the
\* complete output of those k lines: no processed line is pending behind a tag.
\* At every point of a run what has been yielded is an initial part of the output
\* of the whole input.
IOErrorTerminal ==
    /\ (StreamRun /\ pc = "raised") =>
          /\ consumed = Len(input_stream)
          /\ held = <<>>
          /\ yielded = WholeOutput(mode, input_stream)
    /\ StreamRun => IsPrefix(yielded, WholeOutput(mode, input_stream))

\* reading failed after two lines, one of which was tagged
IOErrorTerminalWitness ==
    /\ StreamRun
    /\ pc = "raised"
    /\ consumed = 2
    /\ Len(yielded) = 3

\* ------------------------------------------------------------ construction of the maps

MaxDictEntries == 3

\* entries a dictionary file can list; a missing key reads as the empty string
DictEntryPool == {
    [symbol |-> <<"p","e","_","g","e","t","_","s","e","c","t","i","o","n">>, pyro_name |-> <<"I","r","o","n","C","u","r","t","a","i","n","-","S","e","c","t","i","o","n">>],
    [symbol |-> <<"t","e","s","t","_","f","u","n","c","t","i","o","n">>, pyro_name |-> <<"T","e","s","t","-","C","o","d","e","n","a","m","e">>],
    [symbol |-> <<"t","e","s","t","_","f","u","n","c","t","i","o","n">>, pyro_name |-> <<"I","r","o","n","C","u","r","t","a","i","n","-","S","e","c","t","i","o","n">>],
    [symbol |-> <<>>, pyro_name |-> <<"T","e","s","t","-","C","o","d","e","n","a","m","e">>],
    [symbol |-> <<"p","e","_","g","e","t","_","s","e","c","t","i","o","n">>, pyro_name |-> <<>>] }

RECURSIVE SnapshotsOf(_)
SnapshotsOf(n) ==
    IF n = 0 THEN {<<>>}
    ELSE LET shorter == SnapshotsOf(n - 1)
         IN  shorter \cup {Append(s, e) : s \in {x \in shorter : Len(x) = n - 1}, e \in DictEntryPool}

Snapshots == SnapshotsOf(MaxDictEntries)

\* __init__ after _load_cryptex, for any dictionary file
InitLoaded ==
    /\ cryptex_dict \in Snapshots
    /\ symbol_to_codename = <<>>
    /\ codename_to_symbol = <<>>
    /\ pc = "loaded"
    /\ mode = "to_cryptex"
    /\ how = "first"
    /\ source = "lazy"
    /\ input_stream = <<>>
    /\ consumed = 0
    /\ in_condition = FALSE
    /\ in_strings = FALSE
    /\ held = <<>>
    /\ yielded = <<>>
    /\ origin = <<>>
    /\ hist = <<>>
    /\ call = "none"
    /\ argv = "none"
    /\ exit_code = "none"
    /\ path_exists = FALSE
    /\ archive = <<>>
    /\ output_dir = NoOutput
    /\ output_arg = <<>>
    /\ events = <<>>
    /\ file_list = <<>>
    /\ visited = 0
    /\ transcoded_count = 0
    /\ open_handles = {}
    /\ temp_files = {}
    /\ error = "none"

\* self.symbol_to_codename = self._build_symbol_map()
BuildSymbolMap ==
    /\ pc = "loaded"
    /\ symbol_to_codename' = _build_symbol_map(cryptex_dict)
    /\ pc' = "built"
    /\ UNCHANGED <<cryptex_dict, codename_to_symbol, generator, hist, files>>

\* self.codename_to_symbol = {v: k for k, v in self.symbol_to_codename.items()}
InvertSymbolMap ==
    /\ pc = "built"
    /\ codename_to_symbol' = DictInvert(symbol_to_codename)
    /\ pc' = "idle"
    /\ UNCHANGED <<cryptex_dict, symbol_to_codename, generator, hist, files>>

NextInit ==
    \/ BuildSymbolMap
    \/ InvertSymbolMap

SpecInit == InitLoaded /\ [][NextInit]_vars

\* the dictionary maps key k to value v
Maps(d, k, v) == DictHas(d, k) /\ DictGet(d, k) = v

\* the entry has a symbol and a codename
Complete(entry) == entry.symbol # <<>> /\ entry.pyro_name # <<>>

\* C22: symbol map construction. Once the transcoder is constructed, whatever
\* entries the dictionary lists: construction did not fail, an entry without symbol
\* or codename is in neither map, every other entry is in both maps, and the two
\* maps are mutual inverses (symbol_to_codename[s] = c exactly when
\* codename_to_symbol[c] = s).
SymbolMapsInverse ==
    pc = "idle" =>
        /\ error = "none"
        /\ \A i \in DOMAIN symbol_to_codename :
              /\ symbol_to_codename[i][1] # <<>>
              /\ symbol_to_codename[i][2] # <<>>
        /\ \A i \in DOMAIN cryptex_dict :
              Complete(cryptex_dict[i]) =>
                  /\ Maps(symbol_to_codename, cryptex_dict[i].symbol, cryptex_dict[i].pyro_name)
                  /\ Maps(codename_to_symbol, cryptex_dict[i].pyro_name, cryptex_dict[i].symbol)
        /\ \A i \in DOMAIN symbol_to_codename :
              Maps(codename_to_symbol, symbol_to_codename[i][2], symbol_to_codename[i][1])
        /\ \A i \in DOMAIN codename_to_symbol :
              Maps(symbol_to_codename, codename_to_symbol[i][2], codename_to_symbol[i][1])

\* ------------------------------------------------------------ rule texts

\* the lines of YARA rule files the forward transform is given, as in the rule
\* written by test_streaming.py: a declaration, section headers in the cases and
\* indentations the patterns accept, a comment, condition lines
RulePool == {
    <<"r","u","l","e"," ","S","e","c","o","n","d"," ","{">>,
    <<" "," ","C","o","n","d","i","t","i","o","n",":"," "," ">>,
    <<"s","t","r","i","n","g","s",":">>,
    <<"m","e","t","a",":">>,
    <<"/","/"," ","p","e",".","x">>,
    <<" "," ","p","e",".","x"," ",">"," ","1"," ">>,
    <<"p","e",".","g","e","t","_","s","e","c","t","i","o","n","(","0",")">>,
    <<"t","e","s","t","_","f","u","n","c","t","i","o","n","(","1",")">> }

\* the file of a rule text delivers one more line
ReadRuleLine ==
    /\ AtLoopTop
    /\ source = "lazy"
    /\ Len(input_stream) < MaxLines
    /\ \E l \in RulePool :
          /\ input_stream' = Append(input_stream, l \o Newline)
          /\ TakeLine(l \o Newline)
    /\ UNCHANGED files

NextRules ==
    \/ stream_transcode_lines("to_cryptex")
    \/ ReadRuleLine
    \/ ResumeAfterTag
    \/ EndOfInput

\* the forward transform streamed over every rule text of up to MaxLines lines
SpecRules == Init /\ [][NextRules]_vars

RuleKeyword == <<"r","u","l","e">>

\* the line declares a rule: the keyword rule, whitespace, a name
IsRuleDeclaration(line) ==
    LET s == str_strip(line)
    IN  /\ str_startswith(str_lower(s), RuleKeyword)
        /\ Len(s) > Len(RuleKeyword)
        /\ IsSpace(s[Len(RuleKeyword) + 1])

\* the section a header line sets, "none" for a line that is no header
HeaderKind(line) ==
    IF str_lower(str_strip(line)) = ConditionHeader THEN "CONDITION"
    ELSE IF str_lower(str_strip(line)) = StringsHeader THEN "STRINGS"
    ELSE IF \/ str_startswith(str_lower(str_strip(line)), MetaHeader)
            \/ str_startswith(str_lower(str_strip(line)), RuleHeader)
            \/ IsRuleDeclaration(line) THEN "OTHER"
    ELSE "none"

RECURSIVE SectionAfter(_)
\* the section set by the last header among input lines 1..k, OTHER without one
SectionAfter(k) ==
    IF k = 0 THEN "OTHER"
    ELSE IF HeaderKind(InputLine(k)) # "none" THEN HeaderKind(InputLine(k))
    ELSE SectionAfter(k - 1)

\* the section the flags of the generator stand for
SectionState ==
    IF in_condition /\ in_strings THEN "CONDITION and STRINGS"
    ELSE IF in_condition THEN "CONDITION"
    ELSE IF in_strings THEN "STRINGS"
    ELSE "OTHER"

\* C23: section state machine. After any sequence of lines the section state is
\* the one set by the last header line seen: CONDITION for a condition: line,
\* STRINGS for a strings: line, OTHER for a rule or meta header line (headers in
\* any case, surrounding whitespace ignored), OTHER if there was none; a line
\* that is no header leaves the state alone, and the state is never CONDITION
\* and STRINGS at once.
SectionStateMachine ==
    StreamRun =>
        /\ SectionState = SectionAfter(consumed)
        /\ ~(in_condition /\ in_strings)

\* input line k is a rule declaration or follows one with no section header between
AfterDeclaration(k) ==
    \E j \in 1..k :
        /\ IsRuleDeclaration(InputLine(j))
        /\ \A i \in (j + 1)..k : HeaderKind(InputLine(i)) = "none"

\* C24: a new rule ends the condition section. A line that declares a rule moves
\* the state to OTHER, so every line from the declaration up to the rule's next
\* section header is passed on as it is by the forward transform: it is neither
\* rewritten nor tagged.
NewRuleEndsCondition ==
    (StreamRun /\ mode = "to_cryptex") =>
        /\ (consumed > 0 /\ AfterDeclaration(consumed)) => SectionState = "OTHER"
        /\ \A k \in 1..consumed :
              (Finished(k) /\ AfterDeclaration(k)) => YieldsOf(k) = <<input_stream[k]>>

\* ------------------------------------------------------------ tags

\* the line is an OriginalTag line
IsTagLine(line) == str_startswith(str_strip(line), OriginalMarker)

\* what _transcode_to_cryptex appends to its output for input line k of the text
ContentYieldsOf(k) == ToCryptexFrom(<<InputLine(k)>>, 1, InConditionSection(k - 1), FALSE)

\* the output lines are a tag line and then the transformed line
TagThenLine(out) == Len(out) = 2 /\ IsTagLine(out[1])

\* C25: tag emission. Whenever the forward transform changes a line, whatever the
\* line holds (a comment line of the condition section with a dotted pair
\* included), the output has an OriginalTag line immediately before the
\* transformed line, and a line that was not changed gets no tag. Stated for
\* stream_transcode_lines and for _transcode_to_cryptex.
TagEmission ==
    (StreamRun /\ mode = "to_cryptex") =>
        \A k \in 1..consumed :
            Finished(k) =>
                /\ LET out == YieldsOf(k)
                   IN  IF out[Len(out)] # input_stream[k] THEN TagThenLine(out)
                       ELSE Len(out) = 1
                /\ LET out == ContentYieldsOf(k)
                   IN  IF out[Len(out)] # InputLine(k) THEN TagThenLine(out)
                       ELSE Len(out) = 1

\* the lines the reverse pass of stream_transcode_lines yields for one line
ReverseYields(line) == LoopBody("from_cryptex", codename_to_symbol, line, FALSE, FALSE).yields

\* C26: the tag payload is verbatim. What the reverse transform emits for an
\* OriginalTag line written by the forward transform is the pre-transform line,
\* character for character, leading indentation and trailing whitespace
\* included; for the tags of stream_transcode_lines and of transcode_rule_content.
TagPayloadVerbatim ==
    (StreamRun /\ mode = "to_cryptex") =>
        \A k \in 1..consumed :
            /\ (Finished(k) /\ Len(YieldsOf(k)) = 2) =>
                  ReverseYields(YieldsOf(k)[1]) = <<input_stream[k]>>
            /\ Len(ContentYieldsOf(k)) = 2 =>
                  transcode_rule_content(codename_to_symbol, ContentYieldsOf(k)[1], "from_cryptex")
                      = InputLine(k)

\* ------------------------------------------------------------ function symbols

\* codename.split('-')[-1]: the action suffix of the symbol's codename
ActionSuffix(symbol) == str_split_last(DictGet(symbol_to_codename, symbol), "-")

\* an identifier that starts at i, is not the right part of a dotted pair and is
\* followed by '(': the index of its last character, or 0
BareCallEnd(s, i) ==
    IF ~WordStart(s, i) \/ (i > 1 /\ s[i - 1] = ".") THEN 0
    ELSE LET j == WordEnd(s, i)
             p == SkipSpace(s, j + 1)
         IN  IF p <= Len(s) /\ s[p] = "(" THEN j ELSE 0

\* the transformed line yielded for input line k
ProcessedLine(k) == str_rstrip_nl(YieldsOf(k)[Len(YieldsOf(k))])

\* C27: known function symbols are substituted. In the forward transform of a
\* line of the condition section, a dotted call left.right( whose name left_right
\* is a symbol of the dictionary has right replaced by the text after the last
\* '-' of the symbol's codename, and a bare call identifier( has its identifier
\* replaced in the same way when it is a symbol of the dictionary.
FunctionSymbolsSubstituted ==
    (StreamRun /\ mode = "to_cryptex") =>
        \A k \in 1..consumed :
            (Finished(k) /\ InConditionSection(k)) =>
                \A i \in DOMAIN InputLine(k) :
                    LET line == InputLine(k)
                        m == MatchDottedCall(line, i)
                        b == BareCallEnd(line, i)
                    IN  /\ m # <<>> =>
                              LET symbol == SubSeq(line, i, m[1]) \o <<"_">>
                                                \o SubSeq(line, m[1] + 2, m[2])
                              IN  DictHas(symbol_to_codename, symbol) =>
                                      str_contains(ProcessedLine(k),
                                                   <<".">> \o ActionSuffix(symbol) \o <<"(">>)
                        /\ b # 0 =>
                              LET symbol == SubSeq(line, i, b)
                              IN  DictHas(symbol_to_codename, symbol) =>
                                      /\ str_contains(ProcessedLine(k),
                                                      ActionSuffix(symbol) \o <<"(">>)
                                      /\ ~str_contains(ProcessedLine(k), symbol)

\* ------------------------------------------------------------ output cardinality

\* C28: output cardinality and termination. Every input line of
\* stream_transcode_lines gives zero, one or two output lines, two only as the tag
\* line of the input line followed by the transformed line, and never zero in the
\* forward direction; the output ends after the output of the last input line, so
\* a run over n lines has yielded at most 2n lines when the generator returns,
\* and it returns with every line consumed and nothing held back.
OutputCardinality ==
    StreamRun =>
        /\ \A k \in 1..consumed :
              Finished(k) =>
                  /\ Len(YieldsOf(k)) \in 0..2
                  /\ Len(YieldsOf(k)) = 2 => YieldsOf(k)[1] = OriginalPrefix \o input_stream[k]
                  /\ mode = "to_cryptex" => Len(YieldsOf(k)) >= 1
        /\ Len(yielded) <= 2 * consumed
        /\ pc = "done" =>
              /\ consumed = Len(input_stream)
              /\ held = <<>>
              /\ Len(yielded) <= 2 * Len(input_stream)
              /\ origin # <<>> => origin[Len(origin)] <= Len(input_stream)

\* a reverse run over three lines that ended with a line of two outputs, after a
\* line of one and a line of none
OutputCardinalityWitness ==
    /\ StreamRun
    /\ pc = "done"
    /\ mode = "from_cryptex"
    /\ consumed = 3
    /\ Len(YieldsOf(1)) = 1
    /\ YieldsOf(2) = <<>>
    /\ Len(YieldsOf(3)) = 2

\* ------------------------------------------------------------ pulling

\* C29: pull-based with no lookahead. A step of a generator of
\* stream_transcode_lines reads at most one input line, and reads it only when
\* every output line of the line before has been handed to the consumer (nothing
\* is held behind a tag); a generator that was created and not yet asked for
\* output has read nothing; the lines taken from a file are exactly the lines
\* consumed, so without a request of the consumer nothing more is read.
PullNoLookahead ==
    [][ (StreamRun' /\ pc # "idle") =>
            /\ pc' = "created" => (consumed' = 0 /\ yielded' = <<>>)
            /\ source' = "lazy" => Len(input_stream') = consumed'
            /\ held' # <<>> => pc' = "yield_tag"
            /\ consumed' > consumed =>
                  /\ consumed' = consumed + 1
                  /\ held = <<>>
                  /\ consumed > 0 => Finished(consumed)
                  /\ Len(yielded') <= Len(yielded) + 1 ]_vars

\* the consumer has the tag of the second line and has not yet asked for the line
PullNoLookaheadWitness ==
    /\ StreamRun
    /\ source = "lazy"
    /\ pc = "yield_tag"
    /\ consumed = 2
    /\ Len(input_stream) = 2
    /\ held # <<>>

\* ------------------------------------------------------------ streaming and whole text

\* the text whose lines the generator was given
WholeText == str_join(LinesOf("stream", input_stream), "\n")

\* the lines of a text; the empty text has none
TextLines(text) == IF text = <<>> THEN <<>> ELSE LinesOf("content", text)

\* C30: streaming agrees with whole-text transcoding. For every text and both
\* directions, the lines stream_transcode_lines yields over the lines of the
\* text, without their line terminators, are the lines of transcode_rule_content
\* applied to the whole text, the text of every OriginalTag line included.
StreamAgreesWithContent ==
    (StreamRun /\ pc = "done" /\ consumed > 0) =>
        LinesOf("stream", yielded)
            = TextLines(transcode_rule_content(codename_to_symbol, WholeText, mode))

====
